---- MODULE Spec2Model ----
(***************************************************************************)
(* Model of agents/email_agent.py: generate_email_response (the remote     *)
(* completion call with retries, backoff and the session throttle state)   *)
(* and generate_smart_email_response (the offline template generator).     *)
(* Texts are sequences of one-character strings, so that lower-casing,     *)
(* substring tests and the name regex are computed as the code does.       *)
(***************************************************************************)
EXTENDS Integers, Sequences, FiniteSets, TLC

(* ---------------------------- bounds ----------------------------------- *)
\* largest max_retries argument a caller passes
MaxRetries == 4
\* past this many seconds the environment stops advancing the clock and no
\* call enters the retry loop any more
MaxTime == 150

(* ------------------------ program constants ---------------------------- *)
\* consecutive_failures at or above this bypasses the API
FailureThreshold == 3
\* minimum seconds between the last request and a new call's first attempt
MinSpacing == 60
\* wait_time = 30 * (attempt + 1)
BaseDelay == 30

(* ------------------------------ texts ---------------------------------- *)
UpperAlpha ==
    <<"A", "B", "C", "D", "E", "F", "G", "H", "I", "J", "K", "L", "M",
      "N", "O", "P", "Q", "R", "S", "T", "U", "V", "W", "X", "Y", "Z">>

LowerAlpha ==
    <<"a", "b", "c", "d", "e", "f", "g", "h", "i", "j", "k", "l", "m",
      "n", "o", "p", "q", "r", "s", "t", "u", "v", "w", "x", "y", "z">>

Digits == {"0", "1", "2", "3", "4", "5", "6", "7", "8", "9"}

Whitespace == {" ", "\n", "\t"}

UpperSet == { UpperAlpha[i] : i \in 1..26 }

LowerSet == { LowerAlpha[i] : i \in 1..26 }

\* the regex class [A-Z]
IsUpper(c) == c \in UpperSet

\* the regex class [a-z]
IsLower(c) == c \in LowerSet

\* the regex class \w
IsWordChar(c) == IsUpper(c) \/ IsLower(c) \/ c \in Digits \/ c = "_"

\* str.lower() on one character
LowerChar(c) ==
    IF IsUpper(c) THEN LowerAlpha[CHOOSE i \in 1..26 : UpperAlpha[i] = c] ELSE c

\* str.lower()
Lower(s) == [i \in 1..Len(s) |-> LowerChar(s[i])]

\* not s or not s.strip()
IsBlank(s) == \A i \in 1..Len(s) : s[i] \in Whitespace

\* the Python test  word in s  on strings
Contains(s, word) ==
    \E i \in 0..(Len(s) - Len(word)) :
        \A j \in 1..Len(word) : s[i + j] = word[j]

\* any(word in s for word in words)
AnyIn(s, words) == \E w \in words : Contains(s, w)

(* ----------------------- keyword groups -------------------------------- *)
MeetingWords ==
    { <<"m", "e", "e", "t", "i", "n", "g">>,
      <<"c", "a", "l", "l">>,
      <<"s", "c", "h", "e", "d", "u", "l", "e">>,
      <<"a", "p", "p", "o", "i", "n", "t", "m", "e", "n", "t">>,
      <<"a", "v", "a", "i", "l", "a", "b", "l", "e">> }

QuestionWords ==
    { <<"q", "u", "e", "s", "t", "i", "o", "n">>,
      <<"h", "e", "l", "p">>,
      <<"h", "o", "w">>,
      <<"w", "h", "a", "t">>,
      <<"w", "h", "e", "n">>,
      <<"w", "h", "e", "r", "e">>,
      <<"w", "h", "y">> }

ComplaintWords ==
    { <<"p", "r", "o", "b", "l", "e", "m">>,
      <<"i", "s", "s", "u", "e">>,
      <<"w", "r", "o", "n", "g">>,
      <<"e", "r", "r", "o", "r">>,
      <<"d", "i", "s", "a", "p", "p", "o", "i", "n", "t", "e", "d">>,
      <<"u", "n", "h", "a", "p", "p", "y">> }

RequestWords ==
    { <<"p", "l", "e", "a", "s", "e">>,
      <<"c", "o", "u", "l", "d", " ", "y", "o", "u">>,
      <<"w", "o", "u", "l", "d", " ", "y", "o", "u">>,
      <<"c", "a", "n", " ", "y", "o", "u">>,
      <<"n", "e", "e", "d">> }

ThankWords ==
    { <<"t", "h", "a", "n", "k">>,
      <<"g", "r", "a", "t", "e", "f", "u", "l">>,
      <<"a", "p", "p", "r", "e", "c", "i", "a", "t", "e">> }

\* the five tests, on email_text and on email_lower = email_text.lower()
is_meeting_request(email_lower) == AnyIn(email_lower, MeetingWords)

is_question(email_text, email_lower) ==
    Contains(email_text, <<"?">>) \/ AnyIn(email_lower, QuestionWords)

is_complaint(email_lower) == AnyIn(email_lower, ComplaintWords)

is_request(email_lower) == AnyIn(email_lower, RequestWords)

is_thank_you(email_lower) == AnyIn(email_lower, ThankWords)

(* ------------------------- name extraction ----------------------------- *)
\* \b holds between positions i and i+1 of s (0 <= i <= Len(s))
WordBoundary(s, i) ==
    LET before == i >= 1 /\ IsWordChar(s[i])
        after  == i < Len(s) /\ IsWordChar(s[i + 1])
    IN  before # after

\* the regex \b[A-Z][a-z]+\b matches s[i..j]
NameMatch(s, i, j) ==
    /\ 1 <= i /\ i < j /\ j <= Len(s)
    /\ IsUpper(s[i])
    /\ WordBoundary(s, i - 1)
    /\ \A k \in (i + 1)..j : IsLower(s[k])
    /\ WordBoundary(s, j)

\* positions at which re.findall finds a match starting
NameStarts(s) ==
    { i \in 1..Len(s) :
        IsUpper(s[i]) /\ \E j \in (i + 1)..Len(s) : NameMatch(s, i, j) }

There == <<"t", "h", "e", "r", "e">>

\* potential_names[0] if potential_names else "there"
sender_name(email_text) ==
    LET starts == NameStarts(email_text)
    IN  IF starts = {} THEN There
        ELSE LET i == CHOOSE a \in starts : \A b \in starts : a <= b
                 j == CHOOSE b \in (i + 1)..Len(email_text) :
                          NameMatch(email_text, i, b)
             IN  SubSeq(email_text, i, j)

(* --------------------------- templates --------------------------------- *)
Professional == <<"p", "r", "o", "f", "e", "s", "s", "i", "o", "n", "a", "l">>

Friendly == <<"f", "r", "i", "e", "n", "d", "l", "y">>

\* the keys of the responses dictionary, per tone
responses ==
    [t \in {Professional, Friendly} |->
        IF t = Professional
        THEN {"meeting_request", "question", "complaint", "request",
              "thank_you", "general"}
        ELSE {"meeting_request", "question", "general"}]

response_type_question_first(email_text) ==
    LET email_lower == Lower(email_text) \o <<>>
    IN  IF is_meeting_request(email_lower) THEN "meeting_request"
        ELSE IF is_question(email_text, email_lower) THEN "question"
        ELSE IF is_complaint(email_lower) THEN "complaint"
        ELSE IF is_request(email_lower) THEN "request"
        ELSE IF is_thank_you(email_lower) THEN "thank_you"
        ELSE "general"

\* the if/elif chain that determines response_type
response_type(email_text) ==
    LET email_lower == Lower(email_text) \o <<>>
    IN  IF is_meeting_request(email_lower) THEN "meeting_request"
        ELSE IF is_complaint(email_lower) THEN "complaint"
        ELSE IF is_question(email_text, email_lower) THEN "question"
        ELSE IF is_request(email_lower) THEN "request"
        ELSE IF is_thank_you(email_lower) THEN "thank_you"
        ELSE "general"

\* tone.lower(), replaced by 'professional' when it has no template set
tone_key(tone) ==
    IF Lower(tone) \in DOMAIN responses THEN Lower(tone) ELSE Professional

generate_smart_email_response_professional_intent(email_text, tone) ==
    LET tk == tone_key(tone)
        rt == response_type(email_text)
    IN  [kind        |-> "offline",
         tone_key    |-> IF rt \in responses[tk] THEN tk ELSE Professional,
         template    |-> rt,
         sender_name |-> sender_name(email_text)]

\* the value returned: responses[tone_key][response_type], an f-string of
\* the template (tone_key, template) with sender_name interpolated
generate_smart_email_response(email_text, tone) ==
    LET tk == tone_key(tone)
        rt == response_type(email_text)
    IN  [kind        |-> "offline",
         tone_key    |-> tk,
         template    |-> IF rt \in responses[tk] THEN rt ELSE "general",
         sender_name |-> sender_name(email_text)]

(* ----------------------------- inputs ---------------------------------- *)
Shipment ==
    <<"H", "i", ",", " ", "I", " ", "w", "a", "n", "t", "e", "d", " ", "t",
      "o", " ", "a", "s", "k", " ", "w", "h", "e", "n", " ", "t", "h", "e",
      " ", "s", "h", "i", "p", "m", "e", "n", "t", " ", "w", "i", "l", "l",
      " ", "a", "r", "r", "i", "v", "e", "?">>

ScheduleCall ==
    <<"C", "a", "n", " ", "w", "e", " ", "s", "c", "h", "e", "d", "u", "l",
      "e", " ", "a", " ", "c", "a", "l", "l", " ", "t", "o", "m", "o", "r",
      "r", "o", "w", "?">>

\* email texts passed to generate_email_response: empty, whitespace only,
\* a short question and a longer one
CallEmails == { <<>>, <<" ", "\n">>, <<"W", "h", "e", "n", "?">>, Shipment }

\* tones passed to generate_email_response: a blank one, a tone of the
\* selectbox and a lower-case one
CallTones == { <<" ">>, <<"F", "r", "i", "e", "n", "d", "l", "y">>, Professional }

(* ------------------------------ state ---------------------------------- *)
VARIABLES
    session_state,  \* st.session_state: a function on the keys present
    now,            \* time.time(), in seconds
    pc,             \* "ready" for a call, "attempt" inside the for loop,
                    \* "returned" when the call has returned to its caller
    email_text,     \* arguments of the current (or last) call
    tone,
    max_retries,
    use_fallback,
    attempt,        \* loop variable of  for attempt in range(max_retries)
    ret,            \* value returned by the last call
    start_state,    \* session_state when the current (or last) call began
    requests,       \* completion requests issued by the current call
    rate_limited,   \* attempts of the current call ended by RateLimitError
    last_outcome,   \* how the latest attempt of the current call ended
    sleeps          \* time.sleep calls of the current call, in order

vars ==
    <<session_state, now, pc, email_text, tone, max_retries,
      use_fallback, attempt, ret, start_state, requests, rate_limited,
      last_outcome, sleeps>>

CF == "consecutive_failures"

LRT == "last_request_time"

\* st.session_state.<key> = v
Assign(s, key, v) ==
    [k \in (DOMAIN s) \cup {key} |-> IF k = key THEN v ELSE s[k]]

\* the empty mapping: a fresh session
EmptyState == [k \in {} |-> 0]

\* the Python value None, as a value of ret
None == [kind |-> "none", tone_key |-> <<>>, template |-> "", sender_name |-> <<>>]

\* response.choices[0].message.content, as a value of ret
RemoteText ==
    [kind |-> "remote", tone_key |-> <<>>, template |-> "", sender_name |-> <<>>]

\* generate_smart_email_response(...) if use_fallback, else None
Fallback(e, t, f) == IF f THEN generate_smart_email_response(e, t) ELSE None

Init ==
    /\ session_state = EmptyState
    /\ now = 0
    /\ pc = "ready"
    /\ email_text = <<>>
    /\ tone = <<>>
    /\ max_retries = 0
    /\ use_fallback = TRUE
    /\ attempt = 0
    /\ ret = None
    /\ start_state = EmptyState
    /\ requests = 0
    /\ rate_limited = 0
    /\ last_outcome = "none"
    /\ sleeps = <<>>

\* the environment lets time pass between calls; the clock is read at
\* multiples of the base delay, which divides every duration of the program
Tick ==
    /\ pc = "ready"
    /\ now < MaxTime
    /\ now' = now + BaseDelay
    /\ UNCHANGED <<session_state, pc, email_text, tone, max_retries,
                   use_fallback, attempt, ret, start_state, requests,
                   rate_limited, last_outcome, sleeps>>

\* bookkeeping common to every way a call begins
BeginCall(e, t, m, f) ==
    /\ pc = "ready"
    /\ email_text' = e
    /\ tone' = t
    /\ max_retries' = m
    /\ use_fallback' = f
    /\ attempt' = 0
    /\ start_state' = session_state
    /\ requests' = 0
    /\ rate_limited' = 0
    /\ last_outcome' = "none"
    /\ sleeps' = <<>>
    /\ UNCHANGED <<session_state, now>>

\* tone = "professional" when tone is blank
EffectiveTone(t) == IF IsBlank(t) THEN Professional ELSE t

Bypassed_off_by_one(s) == CF \in DOMAIN s /\ s[CF] > FailureThreshold

\* the API is skipped because of recent failures
Bypassed(s) == CF \in DOMAIN s /\ s[CF] >= FailureThreshold

TooSoon_half_floor(s, t) == LRT \in DOMAIN s /\ t - s[LRT] < BaseDelay

\* the rate limiting check rejects the call
TooSoon(s, t) == LRT \in DOMAIN s /\ t - s[LRT] < MinSpacing

\* generate_email_response up to the for loop: input validation
CallInvalid(e, t, m, f) ==
    /\ BeginCall(e, t, m, f)
    /\ IsBlank(e)
    /\ ret' = None
    /\ pc' = "returned"

CallBypass_before_validation(e, t, m, f) ==
    /\ BeginCall(e, t, m, f)
    /\ Bypassed(session_state)
    /\ ret' = generate_smart_email_response(e, EffectiveTone(t))
    /\ pc' = "returned"

\* ... the consecutive_failures check
CallBypass(e, t, m, f) ==
    /\ BeginCall(e, t, m, f)
    /\ ~IsBlank(e)
    /\ Bypassed(session_state)
    /\ ret' = generate_smart_email_response(e, EffectiveTone(t))
    /\ pc' = "returned"

\* ... the rate limiting check
CallTooSoon(e, t, m, f) ==
    /\ BeginCall(e, t, m, f)
    /\ ~IsBlank(e)
    /\ ~Bypassed(session_state)
    /\ TooSoon(session_state, now)
    /\ ret' = Fallback(e, EffectiveTone(t), f)
    /\ pc' = "returned"

\* ... and entry into the loop, which ends at once when max_retries = 0
CallEnter(e, t, m, f) ==
    /\ BeginCall(e, t, m, f)
    /\ ~IsBlank(e)
    /\ ~Bypassed(session_state)
    /\ ~TooSoon(session_state, now)
    /\ now <= MaxTime
    /\ ret' = None
    /\ pc' = IF m > 0 THEN "attempt" ELSE "returned"

AttemptNoKey_stamped ==
    /\ pc = "attempt"
    /\ session_state' = Assign(session_state, LRT, now)
    /\ last_outcome' = "nokey"
    /\ ret' = Fallback(email_text, EffectiveTone(tone), use_fallback)
    /\ pc' = "returned"
    /\ UNCHANGED <<now, email_text, tone, max_retries,
                   use_fallback, attempt, start_state, requests, rate_limited,
                   sleeps>>

\* one iteration: "OPENAI_API_KEY" is not in st.secrets, which the
\* environment may change at any time
AttemptNoKey ==
    /\ pc = "attempt"
    /\ last_outcome' = "nokey"
    /\ ret' = Fallback(email_text, EffectiveTone(tone), use_fallback)
    /\ pc' = "returned"
    /\ UNCHANGED <<session_state, now, email_text, tone, max_retries,
                   use_fallback, attempt, start_state, requests, rate_limited,
                   sleeps>>

AttemptSuccess_no_reset ==
    /\ pc = "attempt"
    /\ session_state' = Assign(session_state, LRT, now)
    /\ requests' = requests + 1
    /\ last_outcome' = "success"
    /\ ret' = RemoteText
    /\ pc' = "returned"
    /\ UNCHANGED <<now, email_text, tone, max_retries, use_fallback,
                   attempt, start_state, rate_limited, sleeps>>

\* one iteration: the key is present and the completion succeeds
AttemptSuccess ==
    /\ pc = "attempt"
    /\ session_state' = Assign(Assign(session_state, LRT, now), CF, 0)
    /\ requests' = requests + 1
    /\ last_outcome' = "success"
    /\ ret' = RemoteText
    /\ pc' = "returned"
    /\ UNCHANGED <<now, email_text, tone, max_retries, use_fallback,
                   attempt, start_state, rate_limited, sleeps>>

wait_time_constant(a) == BaseDelay

wait_time_exponential(a) == BaseDelay * 2 ^ a

\* wait_time = 30 * (attempt + 1), attempt counted from 0
wait_time(a) == BaseDelay * (a + 1)

Bump_no_init_increment(s) == IF CF \in DOMAIN s THEN s[CF] + 1 ELSE 0

\* consecutive_failures after one more RateLimitError
Bump(s) == IF CF \in DOMAIN s THEN s[CF] + 1 ELSE 1

AttemptRateLimit_sleeps_on_last ==
    /\ pc = "attempt"
    /\ session_state' =
         Assign(Assign(session_state, LRT, now), CF, Bump(session_state))
    /\ requests' = requests + 1
    /\ rate_limited' = rate_limited + 1
    /\ last_outcome' = "ratelimit"
    /\ IF attempt < max_retries - 1
       THEN /\ sleeps' = Append(sleeps, [after |-> attempt + 1,
                                         secs  |-> wait_time(attempt)])
            /\ now' = now + wait_time(attempt)
            /\ attempt' = attempt + 1
            /\ UNCHANGED <<ret, pc>>
       ELSE /\ sleeps' = Append(sleeps, [after |-> attempt + 1,
                                         secs  |-> wait_time(attempt)])
            /\ now' = now + wait_time(attempt)
            /\ ret' = None
            /\ pc' = "returned"
            /\ UNCHANGED attempt
    /\ UNCHANGED <<email_text, tone, max_retries, use_fallback,
                   start_state>>

\* one iteration: the completion raises openai.RateLimitError
AttemptRateLimit ==
    /\ pc = "attempt"
    /\ session_state' =
         Assign(Assign(session_state, LRT, now), CF, Bump(session_state))
    /\ requests' = requests + 1
    /\ rate_limited' = rate_limited + 1
    /\ last_outcome' = "ratelimit"
    /\ IF attempt < max_retries - 1
       THEN /\ sleeps' = Append(sleeps, [after |-> attempt + 1,
                                         secs  |-> wait_time(attempt)])
            /\ now' = now + wait_time(attempt)
            /\ attempt' = attempt + 1
            /\ UNCHANGED <<ret, pc>>
       ELSE /\ ret' = Fallback(email_text, EffectiveTone(tone), use_fallback)
            /\ pc' = "returned"
            /\ UNCHANGED <<sleeps, now, attempt>>
    /\ UNCHANGED <<email_text, tone, max_retries, use_fallback,
                   start_state>>

\* one iteration: the completion raises any other exception
AttemptError ==
    /\ pc = "attempt"
    /\ session_state' = Assign(session_state, LRT, now)
    /\ requests' = requests + 1
    /\ last_outcome' = "error"
    /\ IF use_fallback /\ attempt = max_retries - 1
       THEN /\ ret' = generate_smart_email_response(email_text,
                                                    EffectiveTone(tone))
            /\ pc' = "returned"
            /\ UNCHANGED attempt
       ELSE IF attempt + 1 < max_retries
       THEN /\ attempt' = attempt + 1
            /\ UNCHANGED <<ret, pc>>
       ELSE /\ ret' = None
            /\ pc' = "returned"
            /\ UNCHANGED attempt
    /\ UNCHANGED <<now, email_text, tone, max_retries, use_fallback,
                   start_state, rate_limited, sleeps>>

\* the caller shows the response, if any, and the call's locals are gone
Display ==
    /\ pc = "returned"
    /\ pc' = "ready"
    /\ email_text' = <<>>
    /\ tone' = <<>>
    /\ max_retries' = 0
    /\ use_fallback' = TRUE
    /\ attempt' = 0
    /\ ret' = None
    /\ start_state' = EmptyState
    /\ requests' = 0
    /\ rate_limited' = 0
    /\ last_outcome' = "none"
    /\ sleeps' = <<>>
    /\ UNCHANGED <<session_state, now>>

Next ==
    \/ Tick
    \/ Display
    \/ \E e \in CallEmails, t \in CallTones, m \in 0..MaxRetries, f \in BOOLEAN :
          \/ CallInvalid(e, t, m, f)
          \/ CallBypass(e, t, m, f)
          \/ CallTooSoon(e, t, m, f)
          \/ CallEnter(e, t, m, f)
    \/ AttemptNoKey
    \/ AttemptSuccess
    \/ AttemptRateLimit
    \/ AttemptError

Spec == Init /\ [][Next]_vars

(* ------------- the "Smart Generator (No API)" button -------------------- *)
\* pieces of email text, one per keyword group, and greetings
MeetingPiece == <<"a", "b", "o", "u", "t", " ", "t", "h", "e", " ", "M", "E", "E", "T", "I", "N", "G", ".", " ">>

ComplaintPiece == <<"i", "t", " ", "i", "s", " ", "W", "r", "o", "n", "g", ".", " ">>

QuestionPiece == <<"t", "e", "l", "l", " ", "m", "e", " ", "h", "o", "w", ".", " ">>

RequestPiece == <<"i", " ", "n", "e", "e", "d", " ", "i", "t", ".", " ">>

ThankPiece == <<"i", " ", "a", "m", " ", "g", "r", "a", "t", "e", "f", "u", "l", ".", " ">>

Greetings == { <<>>, <<"d", "e", "a", "r", " ", "J", "o", "h", "n", ",", " ">>, <<"I", " ", "s", "a", "w", " ", "A", "N", "N", "A", " ", "a", "n", "d", " ", "b", "o", "b", "_", "L", "e", "e", ".", " ">> }

\* a greeting followed by the chosen pieces, lowest priority first
Compose(g, S) ==
    g \o (IF "thank_you" \in S THEN ThankPiece ELSE <<>>)
      \o (IF "request" \in S THEN RequestPiece ELSE <<>>)
      \o (IF "question" \in S THEN QuestionPiece ELSE <<>>)
      \o (IF "complaint" \in S THEN ComplaintPiece ELSE <<>>)
      \o (IF "meeting_request" \in S THEN MeetingPiece ELSE <<>>)

Intents == {"meeting_request", "complaint", "question", "request", "thank_you"}

\* texts pasted into the text area
SmartEmails ==
    { Compose(g, S) : g \in Greetings, S \in SUBSET Intents }
        \cup {Shipment, ScheduleCall}

\* tone_options of the selectbox (three of the five)
SmartTones ==
    { <<"P", "r", "o", "f", "e", "s", "s", "i", "o", "n", "a", "l">>,
      <<"F", "r", "i", "e", "n", "d", "l", "y">>,
      <<"C", "a", "s", "u", "a", "l">> }

InitSmart ==
    /\ session_state = EmptyState
    /\ now = 0
    /\ pc = "ready"
    /\ email_text \in SmartEmails
    /\ tone \in SmartTones
    /\ max_retries = 0
    /\ use_fallback = TRUE
    /\ attempt = 0
    /\ ret = None
    /\ start_state = EmptyState
    /\ requests = 0
    /\ rate_limited = 0
    /\ last_outcome = "none"
    /\ sleeps = <<>>

\* the button handler: smart_response = generate_smart_email_response(...)
SmartButton ==
    /\ pc = "ready"
    /\ Len(email_text) > 0
    /\ ret' = generate_smart_email_response(email_text, tone)
    /\ pc' = "returned"
    /\ UNCHANGED <<session_state, now, email_text, tone, max_retries,
                   use_fallback, attempt, start_state, requests, rate_limited,
                   last_outcome, sleeps>>

NextSmart == SmartButton

SpecSmart == InitSmart /\ [][NextSmart]_vars

(* ------------------------- derived quantities -------------------------- *)
\* consecutive_failures, an absent counter read as 0
Failures(s) == IF CF \in DOMAIN s THEN s[CF] ELSE 0

\* attempts of the current call ended by an exception other than
\* RateLimitError
Errors == requests - rate_limited - (IF last_outcome = "success" THEN 1 ELSE 0)

\* the keyword groups a text matches
Matched(e) ==
    LET l == Lower(e) \o <<>>
    IN  {g \in Intents :
            \/ g = "meeting_request" /\ is_meeting_request(l)
            \/ g = "complaint" /\ is_complaint(l)
            \/ g = "question" /\ is_question(e, l)
            \/ g = "request" /\ is_request(l)
            \/ g = "thank_you" /\ is_thank_you(l)}

Precedence ==
    <<"meeting_request", "complaint", "question", "request", "thank_you",
      "general">>

\* the first intent of Precedence among the matched groups and general
Highest(G) ==
    Precedence[CHOOSE i \in 1..6 :
                  /\ Precedence[i] \in G \cup {"general"}
                  /\ \A j \in 1..(i - 1) : Precedence[j] \notin G]

(* ------------------------------ claims --------------------------------- *)

\* C1: every call of generate_email_response returns a non-empty string,
\* never None, whatever the inputs and the completion outcomes.
CE_C1 == pc = "returned" => ret.kind \in {"remote", "offline"}

\* C2: a call with non-empty text that starts with consecutive_failures >= 3
\* issues no completion request and returns the offline generator's output.
Thm_C2 ==
    (pc # "ready" /\ ~IsBlank(email_text)
        /\ CF \in DOMAIN start_state /\ start_state[CF] >= 3)
    => /\ pc = "returned"
       /\ requests = 0
       /\ ret.kind = "offline"
       /\ ret = generate_smart_email_response(email_text, EffectiveTone(tone))

Wit_C2 ==
    /\ pc = "returned" /\ ~IsBlank(email_text)
    /\ CF \in DOMAIN start_state /\ start_state[CF] = 3
    /\ requests = 0 /\ ret.kind = "offline"

\* C3: once consecutive_failures >= 3 at the end of a call, every later step
\* of the session stays outside the retry loop, issues no request and leaves
\* consecutive_failures >= 3.
Thm_C3 ==
    [][(pc # "attempt" /\ Failures(session_state) >= 3)
        => /\ pc' # "attempt"
           /\ requests' <= requests
           /\ Failures(session_state') >= 3]_vars

Wit_C3 ==
    /\ pc = "returned" /\ ~IsBlank(email_text) /\ max_retries > 0
    /\ Failures(start_state) > 3 /\ Failures(session_state) > 3
    /\ requests = 0 /\ ret.kind = "offline"

\* C4: as long as no attempt of the call has succeeded, consecutive_failures
\* is its value at call start (absent read as 0) plus the number of
\* rate-limited attempts of the call.
Thm_C4 ==
    (pc # "ready" /\ last_outcome # "success")
    => Failures(session_state) = Failures(start_state) + rate_limited

Wit_C4 ==
    /\ pc = "returned" /\ last_outcome # "success"
    /\ CF \notin DOMAIN start_state
    /\ rate_limited = 2 /\ requests = 4

\* C5: the sleeps of one call are non-decreasing, strictly increasing when
\* every attempt was rate-limited, and none follows the final attempt.
Thm_C5 ==
    /\ \A i \in 1..(Len(sleeps) - 1) : sleeps[i].secs <= sleeps[i + 1].secs
    /\ (requests = rate_limited)
         => \A i \in 1..(Len(sleeps) - 1) : sleeps[i].secs < sleeps[i + 1].secs
    /\ \A i \in 1..Len(sleeps) : sleeps[i].after < max_retries

Wit_C5 ==
    /\ pc = "returned" /\ requests = rate_limited
    /\ Len(sleeps) = 3 /\ max_retries = 4

\* C6: after an attempt fails with a non-rate-limit (authentication or other
\* fatal) error, the call issues no further completion request.
CE_C6 ==
    \/ Errors = 0
    \/ Errors = 1 /\ last_outcome \in {"error", "nokey"}

\* C7: a call that returned without issuing a completion request left
\* consecutive_failures and last_request_time as they were.
Thm_C7 == (pc = "returned" /\ requests = 0) => session_state = start_state

Wit_C7 ==
    /\ pc = "returned" /\ requests = 0 /\ last_outcome = "nokey"
    /\ LRT \in DOMAIN start_state /\ CF \in DOMAIN start_state
    /\ session_state = start_state

\* C8: the intent is the first of meeting_request, complaint, question,
\* request, thank_you among the keyword groups the text matches, general if
\* none; a text matching the meeting and the question group gets the
\* meeting_request template.
Thm_C8 ==
    pc = "returned"
    => /\ response_type(email_text) = Highest(Matched(email_text))
       /\ \A g \in Greetings, S \in SUBSET Intents :
            email_text = Compose(g, S)
                => response_type(email_text) = Highest(S)
       /\ ret.tone_key = Professional
            => ret.template = Highest(Matched(email_text))
       /\ {"meeting_request", "question"} \subseteq Matched(email_text)
            => ret.template = "meeting_request"

Wit_C8 ==
    /\ pc = "returned" /\ email_text = ScheduleCall
    /\ ret.tone_key = Friendly
    /\ {"meeting_request", "question"} \subseteq Matched(email_text)
    /\ ret.template = "meeting_request"

\* C9: the offline reply to "Hi, I wanted to ask when the shipment will
\* arrive?" with tone professional is the professional/question template
\* addressed to "there".
CE_C9 ==
    (pc = "returned" /\ ret.kind = "offline" /\ email_text = Shipment
        /\ Lower(tone) = Professional)
    => /\ ret.tone_key = Professional
       /\ ret.template = "question"
       /\ ret.sender_name = There

Thm_C11 ==
    [][(pc = "attempt" /\ last_outcome' = "success"
          /\ requests' = requests + 1)
        => /\ CF \in DOMAIN session_state'
           /\ session_state'[CF] = 0
           /\ ret'.kind = "remote"
           /\ pc' = "returned"
           /\ sleeps' = sleeps
           /\ now' = now]_vars

Wit_C11 ==
    /\ pc = "returned" /\ last_outcome = "success"
    /\ Failures(start_state) = 2 /\ rate_limited = 2
    /\ session_state[CF] = 0 /\ ret.kind = "remote"

\* C12: an attempt that fails with a non-rate-limit error while attempts
\* remain is followed by the backoff sleep of its index before the retry,
\* and leaves consecutive_failures unchanged.
CE_C12 ==
    (pc = "attempt" /\ last_outcome = "error")
    => /\ Len(sleeps) = attempt
       /\ Failures(session_state) = Failures(start_state) + rate_limited

\* seconds slept so far by the current call
RECURSIVE SumSecs(_)
SumSecs(q) == IF q = <<>> THEN 0 ELSE q[1].secs + SumSecs(Tail(q))

\* time.time() when the current call began
StartTime == now - SumSecs(sleeps)

\* the current call began less than 60 seconds after last_request_time with
\* consecutive_failures below 3
CalledEarly ==
    /\ pc # "ready"
    /\ LRT \in DOMAIN start_state
    /\ StartTime - start_state[LRT] < 60
    /\ Failures(start_state) < 3

\* C13: a call made less than 60 seconds after last_request_time, with
\* consecutive_failures < 3, issues no request and returns at once: the
\* offline reply when use_fallback is true, no reply otherwise.
CE_C13 ==
    CalledEarly
    => /\ pc = "returned"
       /\ requests = 0
       /\ sleeps = <<>>
       /\ use_fallback => ret.kind = "offline"
       /\ ~use_fallback => ret = None

\* C13 (amended): the same for a call with non-empty email text.
Thm_C13 ==
    (CalledEarly /\ ~IsBlank(email_text))
    => /\ pc = "returned"
       /\ requests = 0
       /\ sleeps = <<>>
       /\ last_outcome = "none"
       /\ use_fallback
            => ret = generate_smart_email_response(email_text,
                                                   EffectiveTone(tone))
       /\ ~use_fallback => ret = None

Wit_C13 ==
    /\ CalledEarly /\ ~IsBlank(email_text)
    /\ StartTime - start_state[LRT] = 30
    /\ pc = "returned" /\ ~use_fallback /\ ret = None /\ max_retries > 0

\* C14: a call with empty or whitespace-only text returns None at once: no
\* request, no offline reply, no sleep, throttle state untouched, whatever
\* consecutive_failures and last_request_time are.
Thm_C14 ==
    (pc # "ready" /\ IsBlank(email_text))
    => /\ pc = "returned"
       /\ ret = None
       /\ requests = 0
       /\ sleeps = <<>>
       /\ last_outcome = "none"
       /\ session_state = start_state

Wit_C14 ==
    /\ pc = "returned" /\ email_text = <<" ", "\n">>
    /\ Failures(start_state) >= 3 /\ LRT \in DOMAIN start_state
    /\ now - start_state[LRT] < 60
    /\ use_fallback /\ ret = None

\* C15: the offline generator always picks an existing template: the
\* professional set when the lower-cased tone has none, and the chosen tone's
\* general template when that tone has none for the detected intent.
Thm_C15 ==
    (pc = "returned" /\ ret.kind = "offline")
    => LET lt == Lower(tone) \o <<>>
           rt == response_type(email_text)
       IN  /\ ret.tone_key \in DOMAIN responses
           /\ ret.template \in responses[ret.tone_key]
           /\ lt \in {Professional, Friendly} => ret.tone_key = lt
           /\ lt \notin {Professional, Friendly} => ret.tone_key = Professional
           /\ rt \in responses[ret.tone_key] => ret.template = rt
           /\ rt \notin responses[ret.tone_key] => ret.template = "general"

Wit_C15 ==
    /\ pc = "returned" /\ ret.kind = "offline"
    /\ Lower(tone) \o <<>> = Friendly
    /\ response_type(email_text) = "complaint"
    /\ ret.tone_key = Friendly /\ ret.template = "general"

\* C16: a call issues at most max_retries completion requests and sleeps at
\* most max_retries - 1 times, and it terminates: every step inside the loop
\* either returns or moves to the next attempt index, which stays below
\* max_retries.
Thm_C16 ==
    [][/\ requests' <= max_retries'
       /\ sleeps' # <<>> => Len(sleeps') <= max_retries' - 1
       /\ pc = "attempt" => pc' \in {"attempt", "returned"}
       /\ (pc = "attempt" /\ pc' = "attempt")
            => /\ attempt' = attempt + 1
               /\ attempt' < max_retries
               /\ requests' = requests + 1]_vars

Wit_C16 ==
    /\ pc = "returned" /\ max_retries = 4
    /\ requests = 4 /\ Len(sleeps) = 3 /\ last_outcome = "error"

(* ------------- callers that always pass the same max_retries ------------ *)
\* the retry budget is fixed for the whole session, as with the default
\* parameter value used by every caller in the file
InitSame ==
    /\ session_state = EmptyState
    /\ now = 0
    /\ pc = "ready"
    /\ email_text = <<>>
    /\ tone = <<>>
    /\ max_retries \in 1..MaxRetries
    /\ use_fallback = TRUE
    /\ attempt = 0
    /\ ret = None
    /\ start_state = EmptyState
    /\ requests = 0
    /\ rate_limited = 0
    /\ last_outcome = "none"
    /\ sleeps = <<>>

\* the caller shows the response; the next call gets the same max_retries
DisplaySame ==
    /\ pc = "returned"
    /\ pc' = "ready"
    /\ email_text' = <<>>
    /\ tone' = <<>>
    /\ use_fallback' = TRUE
    /\ attempt' = 0
    /\ ret' = None
    /\ start_state' = EmptyState
    /\ requests' = 0
    /\ rate_limited' = 0
    /\ last_outcome' = "none"
    /\ sleeps' = <<>>
    /\ UNCHANGED <<session_state, now, max_retries>>

NextSame ==
    \/ Tick
    \/ DisplaySame
    \/ \E e \in CallEmails, t \in CallTones, f \in BOOLEAN :
          \/ CallInvalid(e, t, max_retries, f)
          \/ CallBypass(e, t, max_retries, f)
          \/ CallTooSoon(e, t, max_retries, f)
          \/ CallEnter(e, t, max_retries, f)
    \/ AttemptNoKey
    \/ AttemptSuccess
    \/ AttemptRateLimit
    \/ AttemptError

SpecSame == InitSame /\ [][NextSame]_vars

\* C17: when every call uses the same max_retries >= 1, consecutive_failures
\* always lies in 0 .. 2 + max_retries; it only ever grows by one, inside the
\* retry loop of a call that started with the counter below 3, so it passes 3
\* only through the retries of that one call.
Thm_C17 ==
    [][/\ Failures(session_state) \in 0..(2 + max_retries)
       /\ Failures(session_state') \in 0..(2 + max_retries')
       /\ Failures(session_state') > Failures(session_state)
            => /\ pc = "attempt"
               /\ Failures(start_state) < FailureThreshold
               /\ Failures(session_state') = Failures(session_state) + 1
               /\ Failures(session_state')
                     <= Failures(start_state) + max_retries]_vars

Wit_C17 ==
    /\ pc = "returned" /\ max_retries = MaxRetries
    /\ Failures(start_state) = 2
    /\ Failures(session_state) = 2 + max_retries

====
